---- MODULE Spec2Model ----
(***************************************************************************)
(* Model of the Kitty adapter of Pokemon-Terminal                          *)
(* (pokemonterminal/terminal/adapters/kitty.py): the threshold table       *)
(* loader, the brightness classifier, the palette selector, the image      *)
(* converter with its content-addressed cache, and the adapter operations  *)
(* change_terminal and clear; and of the setup wizard                      *)
(* (scripts/kitty_setup.py): the marker-block editor of the configuration  *)
(* files and the interactive main().                                       *)
(*                                                                         *)
(* Strings are sequences of one-character strings, so that lower(),        *)
(* isdigit(), zfill(), split() and the pathlib suffix rule are computed    *)
(* as the code computes them. Brightness scores are integers in            *)
(* hundredths (0.65 is 65).                                                *)
(***************************************************************************)
EXTENDS Integers, Sequences, FiniteSets, TLC

VARIABLES
    procs,      \* the processes (terminal sessions) that run the tool
    pc,         \* pc[p]: the position of process p in the running operation
    op,         \* op[p]: "none", "change", "clear" or "convert"
    arg,        \* arg[p]: the path argument of the running operation
    result,     \* result[p]: the path returned by _convert_to_png
    exc,        \* exc[p]: the exception that left the operation, or "none"
    target,     \* target[p]: the cache file name computed by _cached_png_path
    tmp,        \* tmp[p]: the name of the temporary file of this call
    convFailed, \* convFailed[p]: the conversion tool failed in this call
    calls,      \* calls[p]: control-channel invocations of this operation, in order
    out,        \* out[p]: lines printed by this operation, in order
    srcStat,    \* srcStat[path]: stat() of a source file, or Missing
    cacheDir,   \* the cache directory exists
    files,      \* files[name]: content of a file in the cache directory
    nconv,      \* nconv[key]: launches of the conversion tool, per source identity
    textMode,   \* value of POKEMON_TERMINAL_KITTY_TEXT_MODE, or Unset
    dataset,    \* lines of Data/pokemon.txt
    selOut,     \* palette returned by the last direct call of _palette_for_path
    ident,      \* ident[p]: the source identity read by src.stat() in this call
    loaded,     \* the table cached by _load_dark_thresholds, or NotLoaded
    clsOut,     \* clsOut[path]: the score _infer_dark_threshold returned for path
    blk,        \* the file edited by direct calls of _replace_or_append_block
    wiz,        \* the locals, position, output and return value of kitty_setup.main
    home,       \* the files the wizard manages, as they are now
    home0       \* the files the wizard manages, as they were before the run

vars == <<procs, pc, op, arg, result, exc, target, tmp, convFailed, calls, out,
          srcStat, cacheDir, files, nconv, textMode, dataset, selOut,
          ident, loaded, clsOut, blk, wiz, home, home0>>

\* the state of the threshold table and the classifier
tableVars == <<loaded, clsOut>>

\* the state of the setup script
setupVars == <<blk, wiz, home, home0>>

----------------------------------------------------------------------------
(* Bounds of the model *)

\* number of concurrent processes in SpecConv
NProcs == 2
\* a source file is touched at most this many times
MaxMtime == 1
\* the conversion tool is launched at most this many times per source identity
MaxConv == 2
\* brightness scores drawn for the dataset in SpecPalette: 0 .. MaxScore hundredths
MaxScore == 100
\* the datasets of SpecTable have at most this many lines
MaxLines == 3
\* the prior file contents of SpecBlock have at most this many tokens
MaxLen == 4
\* _replace_or_append_block is called at most this many times on the file
MaxCalls == 2

----------------------------------------------------------------------------
(* Strings *)

UPPERS == <<"A","B","C","D","E","F","G","H","I","J","K","L","M",
            "N","O","P","Q","R","S","T","U","V","W","X","Y","Z">>
LOWERS == <<"a","b","c","d","e","f","g","h","i","j","k","l","m",
            "n","o","p","q","r","s","t","u","v","w","x","y","z">>
DIGITS == <<"0","1","2","3","4","5","6","7","8","9">>

\* str.lower(), one character
LowerChar(c) ==
    IF \E i \in 1..Len(UPPERS) : UPPERS[i] = c
    THEN LOWERS[CHOOSE i \in 1..Len(UPPERS) : UPPERS[i] = c]
    ELSE c

\* str.lower()
Lower(s) == [i \in 1..Len(s) |-> LowerChar(s[i])]

IsDigitChar(c) == \E i \in 1..Len(DIGITS) : DIGITS[i] = c

DigitVal(c) == (CHOOSE i \in 1..Len(DIGITS) : DIGITS[i] = c) - 1

\* str.isdigit(): non-empty and every character a digit
IsDigit(s) == Len(s) > 0 /\ \A i \in 1..Len(s) : IsDigitChar(s[i])

\* str.zfill(w)
Zfill(s, w) == IF Len(s) >= w THEN s ELSE [i \in 1..(w - Len(s)) |-> "0"] \o s

\* str.find(c) + 1: position of the first c, 0 when absent
Find(s, c) ==
    IF \E i \in 1..Len(s) : s[i] = c
    THEN CHOOSE i \in 1..Len(s) : s[i] = c /\ \A j \in 1..(i - 1) : s[j] # c
    ELSE 0

\* str.rfind(c) + 1: position of the last c, 0 when absent
RFind(s, c) ==
    IF \E i \in 1..Len(s) : s[i] = c
    THEN CHOOSE i \in 1..Len(s) : s[i] = c /\ \A j \in (i + 1)..Len(s) : s[j] # c
    ELSE 0

\* s.split(c)[0]
SplitFirst(s, c) == IF Find(s, c) = 0 THEN s ELSE SubSeq(s, 1, Find(s, c) - 1)

IsSpace(c) == c \in {" ", "\t", "\n"}

RECURSIVE SplitFrom(_, _, _, _)
SplitFrom(s, i, cur, acc) ==
    IF i > Len(s)
    THEN IF cur = <<>> THEN acc ELSE Append(acc, cur)
    ELSE IF IsSpace(s[i])
         THEN SplitFrom(s, i + 1, <<>>, IF cur = <<>> THEN acc ELSE Append(acc, cur))
         ELSE SplitFrom(s, i + 1, Append(cur, s[i]), acc)

\* str.split(): the maximal runs of non-whitespace characters
Split(s) == SplitFrom(s, 1, <<>>, <<>>)

RECURSIVE IntVal(_)
IntVal(ds) ==
    IF ds = <<>> THEN 0
    ELSE 10 * IntVal(SubSeq(ds, 1, Len(ds) - 1)) + DigitVal(ds[Len(ds)])

RECURSIVE DigitsOf(_)
DigitsOf(n) ==
    IF n < 10 THEN <<DIGITS[n + 1]>>
    ELSE Append(DigitsOf(n \div 10), DIGITS[(n % 10) + 1])

\* f"{n:03d}"
Fmt03d(n) == Zfill(DigitsOf(n), 3)

\* float(token) raised ValueError
NotAFloat == -1

\* float(token), in hundredths, for the tokens the datasets of the model hold:
\* unsigned decimals with at most two fraction digits ("0.82", "1", ".5"),
\* and any token with another character, for which float() raises
ParseFloat(tok) ==
    LET dot  == Find(tok, ".")
        ip   == IF dot = 0 THEN tok ELSE SubSeq(tok, 1, dot - 1)
        fp   == IF dot = 0 THEN <<>> ELSE SubSeq(tok, dot + 1, Len(tok))
        ok   == /\ Len(ip) + Len(fp) > 0
                /\ \A i \in 1..Len(ip) : IsDigitChar(ip[i])
                /\ \A i \in 1..Len(fp) : IsDigitChar(fp[i])
                /\ Len(fp) <= 2
        frac == IF Len(fp) = 0 THEN 0
                ELSE IF Len(fp) = 1 THEN 10 * IntVal(fp) ELSE IntVal(fp)
    IN  IF ok THEN 100 * IntVal(ip) + frac ELSE NotAFloat

----------------------------------------------------------------------------
(* Paths *)

\* a path is a directory and a file name; the directory "cache" is
\* ~/.cache/pokemon-terminal/kitty-images, "img" is where the sources live
MkPath(d, n) == [dir |-> d, name |-> n]

\* PurePath.suffix: from the last dot, unless the dot is first or last
PathSuffix(name) ==
    LET j == RFind(name, ".")
    IN  IF 1 < j /\ j < Len(name) THEN SubSeq(name, j, Len(name)) ELSE <<>>

\* PurePath.stem
PathStem(name) ==
    LET j == RFind(name, ".")
    IN  IF 1 < j /\ j < Len(name) THEN SubSeq(name, 1, j - 1) ELSE name

----------------------------------------------------------------------------
(* Palettes *)

PaletteKeys ==
    <<"foreground", "cursor", "selection_foreground", "selection_background",
      "color0", "color1", "color2", "color3", "color4", "color5", "color6",
      "color7", "color8", "color9", "color10", "color11", "color12",
      "color13", "color14", "color15">>

LightValues ==
    <<"#111111", "#111111", "#111111", "#d6d6d6",
      "#111111", "#8f1d21", "#1f7a32", "#6b5800", "#004f95", "#6a2e8a", "#006c79",
      "#8f8f8f", "#4d4d4d", "#b33a3f", "#2f9951", "#8c7300", "#2a73ba",
      "#8d3ab5", "#008b9c", "#111111">>

DarkValues ==
    <<"#f0f0f0", "#f0f0f0", "#111111", "#f0f0f0",
      "#1a1a1a", "#ff6b6b", "#8ce99a", "#ffd43b", "#74c0fc", "#d0bfff", "#66d9e8",
      "#dee2e6", "#6c757d", "#ff8787", "#b2f2bb", "#ffe066", "#a5d8ff",
      "#e5dbff", "#99e9f2", "#ffffff">>

\* a palette is the ordered mapping key -> value, kept as a sequence of items
LIGHT_BG_PALETTE == [i \in 1..Len(PaletteKeys) |-> <<PaletteKeys[i], LightValues[i]>>]
DARK_BG_PALETTE  == [i \in 1..Len(PaletteKeys) |-> <<PaletteKeys[i], DarkValues[i]>>]

\* palette["foreground"]
PaletteGet(palette, key) ==
    palette[CHOOSE i \in 1..Len(palette) : palette[i][1] = key][2]

----------------------------------------------------------------------------
(* Threshold table loader and brightness classifier *)

EmptyDict == [k \in {} |-> 0]

\* by_id.get(k, 0.5) / by_name.get(k, 0.5)
DictGet(d, k, default) == IF k \in DOMAIN d THEN d[k] ELSE default

\* the loader, were a skipped line to use up an id
RECURSIVE LoadFromConsuming(_, _, _, _, _)
LoadFromConsuming(lines, i, id_counter, by_id, by_name) ==
    IF i > Len(lines) THEN [by_id |-> by_id, by_name |-> by_name]
    ELSE
      LET pokemon_data == Split(lines[i])
      IN  IF Len(pokemon_data) < 2
          THEN LoadFromConsuming(lines, i + 1, id_counter + 1, by_id, by_name)
          ELSE
            LET name      == Lower(pokemon_data[1])
                threshold == ParseFloat(pokemon_data[2])
            IN  IF threshold = NotAFloat
                THEN LoadFromConsuming(lines, i + 1, id_counter + 1, by_id, by_name)
                ELSE LoadFromConsuming(lines, i + 1, id_counter + 1,
                                       (Fmt03d(id_counter) :> threshold) @@ by_id,
                                       (name :> threshold) @@ by_name)

RECURSIVE LoadFrom(_, _, _, _, _)
LoadFrom(lines, i, id_counter, by_id, by_name) ==
    IF i > Len(lines) THEN [by_id |-> by_id, by_name |-> by_name]
    ELSE
      LET pokemon_data == Split(lines[i])
      IN  IF Len(pokemon_data) < 2
          THEN LoadFrom(lines, i + 1, id_counter, by_id, by_name)
          ELSE
            LET name      == Lower(pokemon_data[1])
                threshold == ParseFloat(pokemon_data[2])
            IN  IF threshold = NotAFloat
                THEN LoadFrom(lines, i + 1, id_counter, by_id, by_name)
                ELSE LoadFrom(lines, i + 1, id_counter + 1,
                              (Fmt03d(id_counter) :> threshold) @@ by_id,
                              (name :> threshold) @@ by_name)

load_dark_thresholds(lines) == LoadFrom(lines, 1, 1, EmptyDict, EmptyDict)

\* the score of a creature that is in neither table: 0.5
DefaultThreshold == 50

infer_dark_threshold(path, lines) ==
    LET tbl  == load_dark_thresholds(lines)
        stem == Lower(PathStem(path.name))
    IN  IF IsDigit(stem)
        THEN DictGet(tbl.by_id, Zfill(stem, 3), DefaultThreshold)
        ELSE DictGet(tbl.by_name,
                     IF Find(stem, "-") # 0 THEN SplitFirst(stem, "-") ELSE stem,
                     DefaultThreshold)

----------------------------------------------------------------------------
(* Palette selector *)

\* the score from which an image counts as bright: 0.65
BrightThreshold == 65

palette_for_threshold_gt(threshold) ==
    IF threshold > BrightThreshold THEN LIGHT_BG_PALETTE ELSE DARK_BG_PALETTE

palette_for_threshold(threshold) ==
    IF threshold >= BrightThreshold THEN LIGHT_BG_PALETTE ELSE DARK_BG_PALETTE

\* the environment variable: unset, or set to a string
Unset == [set |-> FALSE, val |-> <<>>]
SetTo(v) == [set |-> TRUE, val |-> v]

\* os.environ.get("POKEMON_TERMINAL_KITTY_TEXT_MODE", "auto")
EnvGet(env, default) == IF env.set THEN env.val ELSE default

palette_for_path_nolower(path, env, lines) ==
    LET text_mode == EnvGet(env, <<"a","u","t","o">>)
    IN  IF text_mode = <<"l","i","g","h","t">> THEN DARK_BG_PALETTE
        ELSE IF text_mode = <<"d","a","r","k">> THEN LIGHT_BG_PALETTE
        ELSE palette_for_threshold(infer_dark_threshold(path, lines))

palette_for_path(path, env, lines) ==
    LET text_mode == Lower(EnvGet(env, <<"a","u","t","o">>))
    IN  IF text_mode = <<"l","i","g","h","t">> THEN DARK_BG_PALETTE
        ELSE IF text_mode = <<"d","a","r","k">> THEN LIGHT_BG_PALETTE
        ELSE palette_for_threshold(infer_dark_threshold(path, lines))

----------------------------------------------------------------------------
(* The files of the model *)

Procs == 1..NProcs

PikachuJpg == MkPath("img", <<"p","i","k","a","c","h","u",".","j","p","g">>)
TwoPNG     == MkPath("img", <<"2",".","P","N","G">>)
XPng       == MkPath("img", <<"x",".","P","n","g">>)
YpngLower  == MkPath("img", <<"y",".","p","n","g">>)
GhostGif   == MkPath("img", <<"g","h","o","s","t",".","g","i","f">>)

\* the source paths an operation is called with, in a fixed order
SrcList  == <<PikachuJpg, TwoPNG, XPng, YpngLower, GhostGif>>
SrcPaths == {SrcList[i] : i \in 1..Len(SrcList)}
SrcIndex(path) == CHOOSE i \in 1..Len(SrcList) : SrcList[i] = path

\* the source file that is modified while the tool runs
TouchPaths == {PikachuJpg}

\* the uncached image the concurrent processes of SpecConv convert
ConvPaths == {PikachuJpg}

\* stat() of a file that does not exist raises FileNotFoundError
Missing == [mtime |-> 0, size |-> 0, exists |-> FALSE]
Stat(m, sz) == [mtime |-> m, size |-> sz, exists |-> TRUE]

\* how many times a file has been touched or resized since the start
Modifications(st) == st.mtime + (st.size - 3)

InitStat == [path \in SrcPaths |-> IF path = GhostGif THEN Missing ELSE Stat(0, 3)]

\* Data/pokemon.txt of the adapter runs: two well-formed lines around a
\* malformed one
BaseDataset ==
    << <<"B","u","l","b","a","s","a","u","r"," ","0",".","3","\n">>,
       <<"o","o","p","s","\n">>,
       <<"P","i","k","a","c","h","u"," ","0",".","8","2"," ","x","\n">> >>

\* values of POKEMON_TERMINAL_KITTY_TEXT_MODE
TextModes ==
    { Unset,
      SetTo(<<"a","u","t","o">>), SetTo(<<"A","U","T","O">>),
      SetTo(<<"d","a","r","k">>), SetTo(<<"D","a","r","k">>), SetTo(<<"D","A","R","K">>),
      SetTo(<<"l","i","g","h","t">>), SetTo(<<"L","I","G","H","T">>),
      SetTo(<<"L","i","g","h","T">>),
      SetTo(<<"d","i","m">>), SetTo(<<" ","d","a","r","k">>), SetTo(<<>>) }

\* the environments of the adapter runs: no override, and an override
AdapterModes == {Unset, SetTo(<<"D","a","r","k">>), SetTo(<<"l","i","g","h","t">>)}

----------------------------------------------------------------------------
(* Image converter with cache *)

DotPng == <<".","p","n","g">>

\* src.suffix.lower() == ".png", without the lower()
IsPngCaseSensitive(path) == PathSuffix(path.name) = DotPng

\* src.suffix.lower() == ".png"
IsPng(path) == Lower(PathSuffix(path.name)) = DotPng

\* a digest of a key that leaves out the modification time
DigestNoMtime(path, st) ==
    <<"a", DIGITS[SrcIndex(path) + 1], "c", DIGITS[st.size + 1]>>

\* sha1(f"{src.resolve()}:{st_mtime_ns}:{st_size}").hexdigest(): a string of
\* hex digits, different for different keys
Digest(path, st) ==
    <<"a", DIGITS[SrcIndex(path) + 1], "b", DIGITS[st.mtime + 1],
      "c", DIGITS[st.size + 1]>>

\* the files of the cache directory are records: data is "empty" (created,
\* nothing written), "partial" (the tool is writing) or "png" (a whole PNG)

\* the sizes of a source file: as it is first, and after it has grown
Sizes == {3 + d : d \in 0..MaxMtime}

\* the cache key of a source identity
Key(path, st) == <<path, st.mtime, st.size>>
Keys == {Key(path, Stat(m, sz)) : path \in SrcPaths, m \in 0..MaxMtime, sz \in Sizes}

\* no src.stat() yet in this call
NoIdent == <<[dir |-> "", name |-> <<>>], 0, 0>>

\* _load_dark_thresholds has not run yet (lru_cache is empty)
NotLoaded == [by_id |-> EmptyDict, by_name |-> EmptyDict, cached |-> FALSE]

\* cache_root / f"{digest}.png"
cached_png_path(path, st) == MkPath("cache", Digest(path, st) \o DotPng)

\* the names tempfile.NamedTemporaryFile(dir=cache, suffix=".png") draws from
TmpName(i) == <<"t","m","p", DIGITS[i + 1]>> \o DotPng
TmpNames == {TmpName(i) : i \in Procs}

NoPath == MkPath("", <<>>)
NoName == <<>>
NoExc  == [type |-> "none", at |-> "none"]
Raised(type, at) == [type |-> type, at |-> at]

\* the file system without file n
Remove(fs, n) == [k \in DOMAIN fs \ {n} |-> fs[k]]

\* where an operation continues when _convert_to_png has returned
AfterConvert(p) == IF op[p] = "change" THEN "set_bg" ELSE "done"

----------------------------------------------------------------------------
(* Calls *)

StartOp(p, o, path, at) ==
    /\ pc[p] \in {"idle", "done"}
    /\ op' = [op EXCEPT ![p] = o]
    /\ arg' = [arg EXCEPT ![p] = path]
    /\ pc' = [pc EXCEPT ![p] = at]
    /\ exc' = [exc EXCEPT ![p] = NoExc]
    /\ target' = [target EXCEPT ![p] = NoName]
    /\ tmp' = [tmp EXCEPT ![p] = NoName]
    /\ convFailed' = [convFailed EXCEPT ![p] = FALSE]
    /\ calls' = [calls EXCEPT ![p] = <<>>]
    /\ out' = [out EXCEPT ![p] = <<>>]
    /\ ident' = [ident EXCEPT ![p] = NoIdent]
    /\ UNCHANGED <<procs, srcStat, cacheDir, files, nconv, textMode, dataset, selOut, tableVars, setupVars>>

\* _convert_to_png, lines 123-125: a PNG source is returned as it is
ConvertEntry(p, o, path) ==
    IF IsPng(path)
    THEN /\ result' = [result EXCEPT ![p] = path]
         /\ StartOp(p, o, path, IF o = "change" THEN "set_bg" ELSE "done")
    ELSE /\ result' = [result EXCEPT ![p] = NoPath]
         /\ StartOp(p, o, path, "mkdir")

\* KittyProvider.change_terminal(path) is called
CallChangeTerminal(p, path) == ConvertEntry(p, "change", path)

\* _convert_to_png(path) is called directly
CallConvert(p, path) == ConvertEntry(p, "convert", path)

\* KittyProvider.clear() is called
CallClear(p) ==
    /\ result' = [result EXCEPT ![p] = NoPath]
    /\ StartOp(p, "clear", NoPath, "clear_bg")

----------------------------------------------------------------------------
(* _cached_png_path and _convert_to_png, step by step *)

\* the operation ends with an exception that nothing catches
Raise(p, type, at) ==
    /\ exc' = [exc EXCEPT ![p] = Raised(type, at)]
    /\ pc' = [pc EXCEPT ![p] = "done"]

\* cache_root.mkdir(parents=True, exist_ok=True)
Mkdir(p) ==
    /\ pc[p] = "mkdir"
    /\ cacheDir' = TRUE
    /\ pc' = [pc EXCEPT ![p] = "stat"]
    /\ UNCHANGED <<procs, op, arg, result, exc, target, tmp, convFailed, calls, out,
                   srcStat, files, nconv, textMode, dataset, selOut, ident, tableVars, setupVars>>

\* the cache directory cannot be created: mkdir raises OSError
MkdirFails(p) ==
    /\ pc[p] = "mkdir"
    /\ ~cacheDir
    /\ Raise(p, "OSError", "mkdir")
    /\ UNCHANGED <<procs, op, arg, result, target, tmp, convFailed, calls, out,
                   srcStat, cacheDir, files, nconv, textMode, dataset, selOut, ident, tableVars, setupVars>>

\* src.stat(), the key, its digest, the target path
StatSource(p) ==
    /\ pc[p] = "stat"
    /\ IF srcStat[arg[p]].exists
       THEN /\ target' = [target EXCEPT ![p] = cached_png_path(arg[p], srcStat[arg[p]]).name]
            /\ ident' = [ident EXCEPT ![p] = Key(arg[p], srcStat[arg[p]])]
            /\ pc' = [pc EXCEPT ![p] = "exists"]
            /\ exc' = exc
       ELSE /\ Raise(p, "FileNotFoundError", "stat")
            /\ UNCHANGED <<target, ident>>
    /\ UNCHANGED <<procs, op, arg, result, tmp, convFailed, calls, out,
                   srcStat, cacheDir, files, nconv, textMode, dataset, selOut, tableVars, setupVars>>

\* target.exists(), with a lookup that never finds the file
CacheHitNever(fs, t) == FALSE

\* target.exists()
CacheHit(fs, t) == t \in DOMAIN fs

\* lines 128-129: a cache hit returns the target
CheckTarget(p) ==
    /\ pc[p] = "exists"
    /\ IF CacheHit(files, target[p])
       THEN /\ result' = [result EXCEPT ![p] = MkPath("cache", target[p])]
            /\ pc' = [pc EXCEPT ![p] = AfterConvert(p)]
       ELSE /\ result' = result
            /\ pc' = [pc EXCEPT ![p] = "mktemp"]
    /\ UNCHANGED <<procs, op, arg, exc, target, tmp, convFailed, calls, out,
                   srcStat, cacheDir, files, nconv, textMode, dataset, selOut, ident, tableVars, setupVars>>

\* a name no file of the cache directory has (O_EXCL)
FreshTmpName(fs) ==
    TmpName(CHOOSE i \in Procs : /\ TmpName(i) \notin DOMAIN fs
                                 /\ \A j \in 1..(i - 1) : TmpName(j) \in DOMAIN fs)

\* lines 131-134: NamedTemporaryFile creates an empty file and closes it
MkTemp(p) ==
    /\ pc[p] = "mktemp"
    /\ cacheDir
    /\ TmpNames \ DOMAIN files # {}
    /\ LET n == FreshTmpName(files)
       IN  /\ tmp' = [tmp EXCEPT ![p] = n]
           /\ files' = (n :> [data |-> "empty", by |-> p, launch |-> 0,
                                 key |-> ident[p]]) @@ files
    /\ pc' = [pc EXCEPT ![p] = "run"]
    /\ UNCHANGED <<procs, op, arg, result, exc, target, convFailed, calls, out,
                   srcStat, cacheDir, nconv, textMode, dataset, selOut, ident, tableVars, setupVars>>

\* the temporary file cannot be created: OSError, outside the try block
MkTempFails(p) ==
    /\ pc[p] = "mktemp"
    /\ Raise(p, "OSError", "tmpfile")
    /\ UNCHANGED <<procs, op, arg, result, target, tmp, convFailed, calls, out,
                   srcStat, cacheDir, files, nconv, textMode, dataset, selOut, ident, tableVars, setupVars>>

\* the source identity process p is converting
KeyOf(p) ==
    CHOOSE k \in Keys : cached_png_path(k[1], Stat(k[2], k[3])).name = target[p]

\* lines 137-141: run(["magick", src, tmp_path]) starts the tool
RunLaunch(p) ==
    /\ pc[p] = "run"
    /\ nconv[KeyOf(p)] < MaxConv
    /\ nconv' = [nconv EXCEPT ![KeyOf(p)] = @ + 1]
    /\ pc' = [pc EXCEPT ![p] = "converting"]
    /\ UNCHANGED <<procs, op, arg, result, exc, target, tmp, convFailed, calls, out,
                   srcStat, cacheDir, files, textMode, dataset, selOut, ident, tableVars, setupVars>>

\* the tool cannot be launched: run raises OSError
RunLaunchFails(p) ==
    /\ pc[p] = "run"
    /\ nconv[KeyOf(p)] < MaxConv
    /\ nconv' = [nconv EXCEPT ![KeyOf(p)] = @ + 1]
    /\ convFailed' = [convFailed EXCEPT ![p] = TRUE]
    /\ pc' = [pc EXCEPT ![p] = "except"]
    /\ UNCHANGED <<procs, op, arg, result, exc, target, tmp, calls, out,
                   srcStat, cacheDir, files, textMode, dataset, selOut, ident, tableVars, setupVars>>

\* the output file of the tool, were it given the final cache path
ConvOutputTarget(p) == target[p]

\* the output file of the tool: str(tmp_path)
ConvOutput(p) == tmp[p]

\* what the tool run by process p writes: the data, and for the record who
\* ran the tool, the count of launches for this source identity so far, the
\* identity the call read (key) and the identity of the source the tool
\* reads (src)
Written(p, data) ==
    [data |-> data, by |-> p, launch |-> nconv[KeyOf(p)],
     key |-> ident[p]]

\* the tool has written a part of the PNG
ConvWrite(p) ==
    /\ pc[p] = "converting"
    /\ ConvOutput(p) \notin DOMAIN files \/ files[ConvOutput(p)].data # "partial"
    /\ files' = (ConvOutput(p) :> Written(p, "partial")) @@ files
    /\ UNCHANGED <<procs, pc, op, arg, result, exc, target, tmp, convFailed, calls, out,
                   srcStat, cacheDir, nconv, textMode, dataset, selOut, ident, tableVars, setupVars>>

\* the tool has written the whole PNG and exits 0
ConvExitOk(p) ==
    /\ pc[p] = "converting"
    /\ files' = (ConvOutput(p) :> Written(p, "png")) @@ files
    /\ pc' = [pc EXCEPT ![p] = "replace"]
    /\ UNCHANGED <<procs, op, arg, result, exc, target, tmp, convFailed, calls, out,
                   srcStat, cacheDir, nconv, textMode, dataset, selOut, ident, tableVars, setupVars>>

\* the tool exits non-zero: check=True raises CalledProcessError
ConvExitFail(p) ==
    /\ pc[p] = "converting"
    /\ convFailed' = [convFailed EXCEPT ![p] = TRUE]
    /\ pc' = [pc EXCEPT ![p] = "except"]
    /\ UNCHANGED <<procs, op, arg, result, exc, target, tmp, calls, out,
                   srcStat, cacheDir, files, nconv, textMode, dataset, selOut, ident, tableVars, setupVars>>

\* lines 142-143: tmp_path.replace(target), an atomic rename
Replace(p) ==
    /\ pc[p] = "replace"
    /\ tmp[p] \in DOMAIN files
    /\ files' = (target[p] :> files[tmp[p]]) @@ Remove(files, tmp[p])
    /\ result' = [result EXCEPT ![p] = MkPath("cache", target[p])]
    /\ pc' = [pc EXCEPT ![p] = AfterConvert(p)]
    /\ UNCHANGED <<procs, op, arg, exc, target, tmp, convFailed, calls, out,
                   srcStat, cacheDir, nconv, textMode, dataset, selOut, ident, tableVars, setupVars>>

\* the rename fails: OSError
ReplaceFails(p) ==
    /\ pc[p] = "replace"
    /\ pc' = [pc EXCEPT ![p] = "except"]
    /\ UNCHANGED <<procs, op, arg, result, exc, target, tmp, convFailed, calls, out,
                   srcStat, cacheDir, files, nconv, textMode, dataset, selOut, ident, tableVars, setupVars>>

\* the except block without its unlink
ExceptCleanupNone(fs, n) == fs

\* tmp_path.unlink(missing_ok=True)
ExceptCleanup(fs, n) == Remove(fs, n)

\* lines 144-146: remove the temporary file, return the source path
Except(p) ==
    /\ pc[p] = "except"
    /\ files' = ExceptCleanup(files, tmp[p])
    /\ result' = [result EXCEPT ![p] = arg[p]]
    /\ pc' = [pc EXCEPT ![p] = AfterConvert(p)]
    /\ UNCHANGED <<procs, op, arg, exc, target, tmp, convFailed, calls, out,
                   srcStat, cacheDir, nconv, textMode, dataset, selOut, ident, tableVars, setupVars>>

\* the source file is rewritten with its modification time kept: it grows
Resize(path) ==
    /\ srcStat[path].exists
    /\ Modifications(srcStat[path]) < MaxMtime
    /\ srcStat' = [srcStat EXCEPT ![path].size = @ + 1]
    /\ UNCHANGED <<procs, pc, op, arg, result, exc, target, tmp, convFailed, calls, out,
                   cacheDir, files, nconv, textMode, dataset, selOut, ident, tableVars, setupVars>>

\* the source file is touched: its modification time changes
Touch(path) ==
    /\ srcStat[path].exists
    /\ Modifications(srcStat[path]) < MaxMtime
    /\ srcStat' = [srcStat EXCEPT ![path].mtime = @ + 1]
    /\ UNCHANGED <<procs, pc, op, arg, result, exc, target, tmp, convFailed, calls, out,
                   cacheDir, files, nconv, textMode, dataset, selOut, ident, tableVars, setupVars>>

----------------------------------------------------------------------------
(* Terminal adapter *)

\* how run(["kitty", "@", ...], check=True, capture_output=True) ends:
\* exit 0; a non-zero exit (CalledProcessError) with or without text on
\* stderr; or the kitty executable cannot be launched (FileNotFoundError)
KittyOutcomes == {"ok", "nonzero", "nonzero_stderr", "oserror"}

Cmd(name, args) == [cmd |-> name, args |-> args]

\* the path "none" of `set-background-image none`
NonePath == MkPath("", <<"n","o","n","e">>)

\* print_kitty_error(err, action)
print_kitty_error(outcome, action) ==
    IF outcome = "nonzero_stderr"
    THEN << <<"Failed to", action>>, <<"Output from kitty", "stderr">> >>
    ELSE << <<"Failed to", action>> >>

\* one control-channel invocation of process p: the command is recorded, a
\* CalledProcessError is caught and printed and the operation goes on at
\* onError, any other exception leaves the operation
KittyRun(p, command, outcome, action, onOk, onError) ==
    /\ calls' = [calls EXCEPT ![p] = Append(@, command)]
    /\ CASE outcome = "ok" ->
              /\ pc' = [pc EXCEPT ![p] = onOk]
              /\ UNCHANGED <<out, exc>>
         [] outcome \in {"nonzero", "nonzero_stderr"} ->
              /\ out' = [out EXCEPT ![p] = @ \o print_kitty_error(outcome, action)]
              /\ pc' = [pc EXCEPT ![p] = onError]
              /\ UNCHANGED exc
         [] outcome = "oserror" ->
              /\ Raise(p, "FileNotFoundError", "kitty")
              /\ UNCHANGED out
    /\ UNCHANGED <<procs, op, arg, result, target, tmp, convFailed,
                   srcStat, cacheDir, files, nconv, textMode, dataset, selOut, ident, tableVars, setupVars>>

\* change_terminal going on to set-colors after a failed set-background-image
BgFailedContinue == "set_colors"

\* line 159: `return` after a failed set-background-image
BgFailedNext == "done"

\* lines 155-159: kitty @ set-background-image <image_for_kitty>
SetBackground(p, outcome) ==
    /\ pc[p] = "set_bg"
    /\ KittyRun(p, Cmd("set-background-image", <<result[p]>>), outcome,
                "set background image", "set_colors", BgFailedNext)

\* the palette chosen from the name of the converted file
PaletteSourceConverted(p) == result[p]

\* line 161: the palette is chosen for `path`, the argument of change_terminal
PaletteSource(p) == arg[p]

\* line 162: color_args
ColorArgs(palette) == palette

\* lines 161-166: kitty @ set-colors key=value ...
SetColors(p, outcome) ==
    /\ pc[p] = "set_colors"
    /\ KittyRun(p, Cmd("set-colors",
                       ColorArgs(palette_for_path(PaletteSource(p), textMode, dataset))),
                outcome, "set adaptive colors", "done", "done")

\* lines 169-172: kitty @ set-background-image none
ClearBackground(p, outcome) ==
    /\ pc[p] = "clear_bg"
    /\ KittyRun(p, Cmd("set-background-image", <<NonePath>>), outcome,
                "clear background image", "clear_colors", "clear_colors")

\* lines 173-176: kitty @ set-colors --reset
ClearColors(p, outcome) ==
    /\ pc[p] = "clear_colors"
    /\ KittyRun(p, Cmd("set-colors", << <<"--reset">> >>), outcome,
                "reset colors", "done", "done")

----------------------------------------------------------------------------
(* Specifications *)

----------------------------------------------------------------------------
(* Setup script: marker blocks *)

\* A configuration file is a sequence of tokens: the start marker and the
\* end marker (each a whole string such as KITTY_BLOCK_START, one token),
\* the newline, and a run of any other text.
StartMarker == "S"
EndMarker   == "E"
NL          == "\n"
Text        == "x"
Tokens      == {StartMarker, EndMarker, NL, Text}

\* the lines of the block that is installed
BlockLines == <<"b">>

AbsentFile == [exists |-> FALSE, content |-> <<>>]
FileOf(content) == [exists |-> TRUE, content |-> content]

\* "\n".join(lines)
RECURSIVE JoinLines(_)
JoinLines(ls) ==
    IF Len(ls) = 0 THEN <<>>
    ELSE IF Len(ls) = 1 THEN <<ls[1]>>
    ELSE <<ls[1], NL>> \o JoinLines(Tail(ls))

\* str.find(c, from) + 1: position of the first c at or after from, 0 when absent
FindFrom(s, c, from) ==
    IF \E i \in from..Len(s) : s[i] = c
    THEN CHOOSE i \in from..Len(s) : s[i] = c /\ \A j \in from..(i - 1) : s[j] # c
    ELSE 0

\* content[from:]
From(s, from) == SubSeq(s, from, Len(s))

\* the position after a marker at position idx, stepping over one newline
CutAfter(s, idx) ==
    IF idx + 1 <= Len(s) /\ s[idx + 1] = NL THEN idx + 2 ELSE idx + 1

\* _replace_or_append_block(path, start, end, block_lines): the file it
\* writes and the warnings it prints
replace_or_append_block(file, start, end, block_lines) ==
    LET content    == IF file.exists THEN file.content ELSE <<>>
        block      == JoinLines(<<start>> \o block_lines \o <<end>>) \o <<NL>>
        has_start  == Find(content, start) # 0
        end_in     == Find(content, end) # 0
        start_idx  == Find(content, start)
        end_idx    == IF has_start /\ end_in
                      THEN FindFrom(content, end, start_idx + 1) ELSE 0
        replaced   == has_start /\ end_in /\ end_idx # 0
        has_end    == IF has_start /\ end_in /\ end_idx = 0 THEN FALSE ELSE end_in
        orphan_start == ~replaced /\ has_start /\ ~has_end
        orphan_end   == ~replaced /\ has_end /\ ~has_start
        cut        == IF orphan_start THEN SubSeq(content, 1, start_idx - 1)
                      ELSE IF orphan_end
                      THEN From(content, CutAfter(content, Find(content, end)))
                      ELSE content
        closed     == IF cut # <<>> /\ cut[Len(cut)] # NL THEN cut \o <<NL>> ELSE cut
        written    == IF replaced
                      THEN SubSeq(content, 1, start_idx - 1) \o block
                               \o From(content, CutAfter(content, end_idx))
                      ELSE closed \o (IF closed # <<>> THEN <<NL>> ELSE <<>>) \o block
    IN  [file |-> FileOf(written),
         out  |-> (IF orphan_start THEN <<"orphan start marker">> ELSE <<>>)
                      \o (IF orphan_end THEN <<"orphan end marker">> ELSE <<>>)]

\* no direct call of the block editor
NoBlk == [prior |-> AbsentFile, hist |-> <<>>, out |-> <<>>]

----------------------------------------------------------------------------
(* Setup script: the wizard *)

\* str.strip()
RECURSIVE Strip(_)
Strip(s) ==
    IF s = <<>> THEN s
    ELSE IF IsSpace(s[1]) THEN Strip(Tail(s))
    ELSE IF IsSpace(s[Len(s)]) THEN Strip(SubSeq(s, 1, Len(s) - 1))
    ELSE s

\* _prompt_yes_no, given the line that input() returned
prompt_yes_no(line, default_yes) ==
    LET value == Lower(Strip(line))
    IN  IF value = <<>> THEN default_yes
        ELSE value \in {<<"y">>, <<"y","e","s">>}

\* _prompt, given the line that input() returned
prompt(line, default) ==
    LET value == Strip(line)
    IN  IF value # <<>> THEN value ELSE default

Pikachu   == <<"p","i","k","a","c","h","u">>
Eevee     == <<"e","e","v","e","e">>
Missingno == <<"m","i","s","s","i","n","g","n","o">>
Secret    == <<"p","w">>
WizardModes == {<<"a","u","t","o">>, <<"l","i","g","h","t">>, <<"d","a","r","k">>}

\* the state file: absent, or the JSON object _save_state writes
AbsentState == [exists |-> FALSE, payload |-> [pokemon_selector |-> <<>>,
                                               text_mode |-> <<>>,
                                               kitty_rc_password |-> <<>>]]
SavedState(selector, text_mode, password) ==
    [exists |-> TRUE, payload |-> [pokemon_selector |-> selector,
                                   text_mode |-> text_mode,
                                   kitty_rc_password |-> password]]

\* existing.get(key, default) on _read_json_file(STATE_FILE)
StateGet(state, key, default) == IF state.exists THEN state.payload[key] ELSE default

\* the line `remote_control_password "<password>" set-background-image set-colors`
RemoteLine(password) ==
    IF password = Missingno THEN "remote_control_password missingno"
    ELSE IF password = Secret THEN "remote_control_password pw"
    ELSE "remote_control_password other"

\* the block lines _configure_kitty_remote_control installs
KittyBlockLines(password) == <<"allow_remote_control password", RemoteLine(password)>>

\* the block lines _install_zsh_autoload_hook installs
ZshBlockLines == <<"if kitty", "if autoload", "autoload", "fi", "fi">>

\* _configure_vscode_default_kitty on the settings file, which is one of:
\* "unsupported" (no settings path on this platform), "unreadable",
\* "absent", "object" (a JSON object without the block), "block" (a JSON
\* object with the block), "nobraces" (no `{ ... }` in the text)
configure_vscode_default_kitty(settings) ==
    IF settings \in {"unsupported", "unreadable", "nobraces"}
    THEN [ok |-> FALSE, settings |-> settings]
    ELSE [ok |-> TRUE, settings |-> "block"]

\* the command _run_preview runs
NoPreview == [flag |-> "none", arg |-> <<>>, text_mode |-> <<>>, password |-> <<>>]
PreviewCmd(selector, text_mode, password) ==
    LET sel == Strip(selector)
    IN  [flag      |-> IF sel = <<>> THEN "-v"
                       ELSE IF IsDigit(sel) THEN "id -v" ELSE "-n name -v",
         arg       |-> IF IsDigit(sel) THEN sel ELSE Lower(sel),
         text_mode |-> text_mode,
         password  |-> password]

\* main has not returned
NoRet == -1

\* the wizard is not running
NoWiz == [pc |-> "off", bin |-> FALSE, in_kitty |-> FALSE,
          selector |-> <<>>, text_mode |-> <<>>, password |-> <<>>,
          preview |-> NoPreview, out |-> {}, ret |-> NoRet]

NoHome == [state |-> AbsentState, zshrc |-> AbsentFile, kitty |-> AbsentFile,
           vscode |-> "absent"]

\* no direct call of the palette selector yet
NoSel == [path |-> NoPath, palette |-> <<>>]

InitAdapter(ps) ==
    /\ procs = ps
    /\ pc = [p \in ps |-> "idle"]
    /\ op = [p \in ps |-> "none"]
    /\ arg = [p \in ps |-> NoPath]
    /\ result = [p \in ps |-> NoPath]
    /\ exc = [p \in ps |-> NoExc]
    /\ target = [p \in ps |-> NoName]
    /\ tmp = [p \in ps |-> NoName]
    /\ convFailed = [p \in ps |-> FALSE]
    /\ calls = [p \in ps |-> <<>>]
    /\ out = [p \in ps |-> <<>>]
    /\ srcStat = InitStat
    /\ cacheDir = FALSE
    /\ files = EmptyDict
    /\ nconv = [k \in Keys |-> 0]
    /\ selOut = NoSel
    /\ ident = [p \in ps |-> NoIdent]
    /\ loaded = NotLoaded
    /\ clsOut = EmptyDict

\* the adapter before any call, the setup script not run
InitProc(ps) ==
    /\ InitAdapter(ps)
    /\ blk = NoBlk
    /\ wiz = NoWiz
    /\ home = NoHome
    /\ home0 = NoHome

\* one session running the adapter, in any environment
Init ==
    /\ InitProc({1})
    /\ textMode \in AdapterModes
    /\ dataset = BaseDataset

Next ==
    \/ \E p \in procs, path \in SrcPaths : CallChangeTerminal(p, path)
    \/ \E p \in procs, path \in SrcPaths : CallConvert(p, path)
    \/ \E p \in procs : CallClear(p)
    \/ \E p \in procs : Mkdir(p)
    \/ \E p \in procs : MkdirFails(p)
    \/ \E p \in procs : StatSource(p)
    \/ \E p \in procs : CheckTarget(p)
    \/ \E p \in procs : MkTemp(p)
    \/ \E p \in procs : MkTempFails(p)
    \/ \E p \in procs : RunLaunch(p)
    \/ \E p \in procs : RunLaunchFails(p)
    \/ \E p \in procs : ConvWrite(p)
    \/ \E p \in procs : ConvExitOk(p)
    \/ \E p \in procs : ConvExitFail(p)
    \/ \E p \in procs : Replace(p)
    \/ \E p \in procs : ReplaceFails(p)
    \/ \E p \in procs : Except(p)
    \/ \E p \in procs, outcome \in KittyOutcomes : SetBackground(p, outcome)
    \/ \E p \in procs, outcome \in KittyOutcomes : SetColors(p, outcome)
    \/ \E p \in procs, outcome \in KittyOutcomes : ClearBackground(p, outcome)
    \/ \E p \in procs, outcome \in KittyOutcomes : ClearColors(p, outcome)
    \/ \E path \in TouchPaths : Touch(path)

Spec == Init /\ [][Next]_vars

\* several sessions converting the same uncached image at the same time
InitConv ==
    /\ InitProc(Procs)
    /\ textMode = Unset
    /\ dataset = BaseDataset

NextConv ==
    \/ \E p \in procs, path \in ConvPaths : CallConvert(p, path)
    \/ \E p \in procs : Mkdir(p)
    \/ \E p \in procs : MkdirFails(p)
    \/ \E p \in procs : StatSource(p)
    \/ \E p \in procs : CheckTarget(p)
    \/ \E p \in procs : MkTemp(p)
    \/ \E p \in procs : MkTempFails(p)
    \/ \E p \in procs : RunLaunch(p)
    \/ \E p \in procs : RunLaunchFails(p)
    \/ \E p \in procs : ConvWrite(p)
    \/ \E p \in procs : ConvExitOk(p)
    \/ \E p \in procs : ConvExitFail(p)
    \/ \E p \in procs : Replace(p)
    \/ \E p \in procs : ReplaceFails(p)
    \/ \E p \in procs : Except(p)

SpecConv == InitConv /\ [][NextConv]_vars

\* one session converting an image that is touched and resized between and
\* during its conversions
InitModify ==
    /\ InitProc({1})
    /\ textMode = Unset
    /\ dataset = BaseDataset

NextModify ==
    \/ \E p \in procs, path \in ConvPaths : CallConvert(p, path)
    \/ \E p \in procs : Mkdir(p)
    \/ \E p \in procs : MkdirFails(p)
    \/ \E p \in procs : StatSource(p)
    \/ \E p \in procs : CheckTarget(p)
    \/ \E p \in procs : MkTemp(p)
    \/ \E p \in procs : MkTempFails(p)
    \/ \E p \in procs : RunLaunch(p)
    \/ \E p \in procs : RunLaunchFails(p)
    \/ \E p \in procs : ConvWrite(p)
    \/ \E p \in procs : ConvExitOk(p)
    \/ \E p \in procs : ConvExitFail(p)
    \/ \E p \in procs : Replace(p)
    \/ \E p \in procs : ReplaceFails(p)
    \/ \E p \in procs : Except(p)
    \/ \E path \in ConvPaths : Touch(path)
    \/ \E path \in ConvPaths : Resize(path)

SpecModify == InitModify /\ [][NextModify]_vars

\* the palette selector called directly, for every score and every override
ScoreToken(b) == DigitsOf(b \div 100) \o <<".">> \o Zfill(DigitsOf(b % 100), 2)

\* a dataset whose second creature, pikachu, has the brightness score b
ScoreDataset(b) ==
    << <<"B","u","l","b","a","s","a","u","r"," ","0",".","3","\n">>,
       <<"P","i","k","a","c","h","u"," ">> \o ScoreToken(b) \o <<"\n">> >>

\* pikachu by name, pikachu by id (002), and a creature in neither table
SelPaths == {PikachuJpg, TwoPNG, GhostGif}

InitPalette ==
    /\ InitProc({1})
    /\ textMode \in TextModes
    /\ dataset \in {ScoreDataset(b) : b \in 0..MaxScore}

\* _palette_for_path(path) is called
SelectPalette(path) ==
    /\ selOut' = [path |-> path, palette |-> palette_for_path(path, textMode, dataset)]
    /\ UNCHANGED <<procs, pc, op, arg, result, exc, target, tmp, convFailed, calls, out,
                   srcStat, cacheDir, files, nconv, textMode, dataset, ident, tableVars, setupVars>>

NextPalette == \E path \in SelPaths : SelectPalette(path)

SpecPalette == InitPalette /\ [][NextPalette]_vars

----------------------------------------------------------------------------
(* The threshold table and the classifier called directly *)

LineBulbasaur == <<"B","u","l","b","a","s","a","u","r"," ","0",".","3","\n">>
LinePikachu   == <<"P","i","k","a","c","h","u"," ","0",".","8","2"," ","x","\n">>
LineOneToken  == <<"o","o","p","s","\n">>
LineNoFloat   == <<"m","e","w"," ","a","b","c","\n">>
LineEmpty     == <<"\n">>

\* the lines a dataset of SpecTable is made of
LineKinds == {LineBulbasaur, LinePikachu, LineOneToken, LineNoFloat, LineEmpty}

\* every dataset of at most MaxLines lines
Datasets == UNION {[1..n -> LineKinds] : n \in 0..MaxLines}

PikachuAltJpg ==
    MkPath("img", <<"p","i","k","a","c","h","u","-","a","l","t",".","j","p","g">>)
N002Jpg    == MkPath("img", <<"0","0","2",".","j","p","g">>)
N002AltJpg == MkPath("img", <<"0","0","2","-","a","l","t",".","j","p","g">>)

\* the paths the classifier is called with
ClassPaths == {PikachuJpg, PikachuAltJpg, N002Jpg, N002AltJpg}

\* the table _load_dark_thresholds caches on its first call
LoadedTable(lines) ==
    [by_id   |-> load_dark_thresholds(lines).by_id,
     by_name |-> load_dark_thresholds(lines).by_name,
     cached  |-> TRUE]

\* _load_dark_thresholds() is called for the first time
LoadThresholds ==
    /\ ~loaded.cached
    /\ loaded' = LoadedTable(dataset)
    /\ UNCHANGED <<procs, pc, op, arg, result, exc, target, tmp, convFailed, calls, out,
                   srcStat, cacheDir, files, nconv, textMode, dataset, selOut, ident,
                   clsOut, setupVars>>

\* _infer_dark_threshold(path) is called
Classify(path) ==
    /\ path \notin DOMAIN clsOut
    /\ loaded' = IF loaded.cached THEN loaded ELSE LoadedTable(dataset)
    /\ clsOut' = (path :> infer_dark_threshold(path, dataset)) @@ clsOut
    /\ UNCHANGED <<procs, pc, op, arg, result, exc, target, tmp, convFailed, calls, out,
                   srcStat, cacheDir, files, nconv, textMode, dataset, selOut, ident,
                   setupVars>>

InitTable ==
    /\ InitProc({1})
    /\ textMode = Unset
    /\ dataset \in Datasets

NextTable ==
    \/ LoadThresholds
    \/ \E path \in ClassPaths : Classify(path)

SpecTable == InitTable /\ [][NextTable]_vars

----------------------------------------------------------------------------
(* The block editor called directly, once and again, on any prior file *)

\* every file content of at most MaxLen tokens
Contents == UNION {[1..n -> Tokens] : n \in 0..MaxLen}

\* the file as it is now
BlkFile ==
    IF blk.hist = <<>> THEN blk.prior ELSE FileOf(blk.hist[Len(blk.hist)])

\* _replace_or_append_block(path, start, end, lines) is called
ReplaceOrAppendBlock ==
    /\ Len(blk.hist) < MaxCalls
    /\ LET r == replace_or_append_block(BlkFile, StartMarker, EndMarker, BlockLines)
       IN  blk' = [blk EXCEPT !.hist = Append(@, r.file.content),
                              !.out = @ \o r.out]
    /\ UNCHANGED <<procs, pc, op, arg, result, exc, target, tmp, convFailed, calls, out,
                   srcStat, cacheDir, files, nconv, textMode, dataset, selOut, ident,
                   tableVars, wiz, home, home0>>

InitBlock ==
    /\ InitAdapter({1})
    /\ textMode = Unset
    /\ dataset = BaseDataset
    /\ wiz = NoWiz
    /\ home = NoHome
    /\ home0 = NoHome
    /\ \E file \in {AbsentFile} \cup {FileOf(c) : c \in Contents} :
           blk = [prior |-> file, hist |-> <<>>, out |-> <<>>]

NextBlock == ReplaceOrAppendBlock

SpecBlock == InitBlock /\ [][NextBlock]_vars

----------------------------------------------------------------------------
(* The setup wizard, for any answers and any prior files *)

YesNoLines    == {<<>>, <<"y">>, <<"Y","E","S">>, <<"n">>, <<"o","k">>}
PasswordLines == {<<>>, <<" ","p","w">>}
ChoiceLines   == {<<"p">>, <<"R">>, <<"m">>, <<"s">>, <<"q">>, <<" ","Q">>, <<"x">>, <<>>}
SelectorLines == {<<>>, <<"E","e","v","e","e">>, <<"2","5">>}
ModeLines     == {<<>>, <<"D","a","r","k">>, <<"l","i","g","h","t">>, <<"d","i","m">>}

StateFiles == {AbsentState, SavedState(Eevee, <<"d","a","r","k">>, Secret)}
Zshrcs     == {AbsentFile, FileOf(<<Text, NL>>)}
KittyConfs ==
    {AbsentFile, FileOf(<<Text, NL>>),
     replace_or_append_block(AbsentFile, StartMarker, EndMarker,
                             KittyBlockLines(Missingno)).file}
VscodeSettings == {"unsupported", "absent", "object", "block", "nobraces"}

\* the positions of main at which input() is waiting
PromptPositions ==
    {"ask_vscode", "ask_kitty", "ask_password", "menu", "ask_selector", "ask_mode"}

\* _run_preview(selector, text_mode, password), as a change of wiz
Previewed(w, selector, text_mode, password) ==
    IF w.in_kitty
    THEN [w EXCEPT !.preview = PreviewCmd(selector, text_mode, password)]
    ELSE [w EXCEPT !.out = @ \cup {"Not in a Kitty terminal, skipping live preview."}]

WizFrame ==
    UNCHANGED <<procs, pc, op, arg, result, exc, target, tmp, convFailed, calls, out,
                srcStat, cacheDir, files, nconv, textMode, dataset, selOut, ident,
                tableVars, blk, home0>>

\* main(), lines 336-347: the binary is looked for and the state file read
MainStart ==
    /\ wiz.pc = "start"
    /\ IF ~wiz.bin
       THEN wiz' = [wiz EXCEPT !.pc = "returned", !.ret = 1,
                               !.out = @ \cup {"Missing pokemon binary"}]
       ELSE LET mode == Lower(StateGet(home.state, "text_mode", <<"a","u","t","o">>))
            IN  wiz' = [wiz EXCEPT
                          !.pc = "ask_vscode",
                          !.selector = StateGet(home.state, "pokemon_selector", Pikachu),
                          !.text_mode = IF mode \in WizardModes THEN mode
                                        ELSE <<"a","u","t","o">>,
                          !.password = StateGet(home.state, "kitty_rc_password", Missingno)]
    /\ UNCHANGED home
    /\ WizFrame

\* lines 350-352: the VS Code question is answered
AnswerVscode(line) ==
    /\ wiz.pc = "ask_vscode"
    /\ IF prompt_yes_no(line, TRUE)
       THEN LET r == configure_vscode_default_kitty(home.vscode)
            IN  /\ home' = [home EXCEPT !.vscode = r.settings]
                /\ wiz' = [wiz EXCEPT
                              !.pc = "ask_kitty",
                              !.out = @ \cup (IF r.ok THEN {"Updated VS Code settings"}
                                              ELSE {"Skipping VS Code settings update"})]
       ELSE /\ home' = home
            /\ wiz' = [wiz EXCEPT !.pc = "ask_kitty"]
    /\ WizFrame

\* line 354: the kitty.conf question is answered
AnswerKitty(line) ==
    /\ wiz.pc = "ask_kitty"
    /\ wiz' = [wiz EXCEPT !.pc = IF prompt_yes_no(line, TRUE)
                                 THEN "ask_password" ELSE "menu"]
    /\ UNCHANGED home
    /\ WizFrame

\* lines 355-357: the password is asked and the kitty.conf block written
AnswerPassword(line) ==
    /\ wiz.pc = "ask_password"
    /\ LET password == prompt(line, wiz.password)
           r == replace_or_append_block(home.kitty, StartMarker, EndMarker,
                                        KittyBlockLines(password))
       IN  /\ home' = [home EXCEPT !.kitty = r.file]
           /\ wiz' = [wiz EXCEPT !.pc = "menu", !.password = password,
                                 !.out = @ \cup {"Updated kitty.conf"}
                                           \cup {r.out[i] : i \in 1..Len(r.out)}]
    /\ WizFrame

\* input("Choose action: ").strip().lower()
Choice(line) == Lower(Strip(line))

\* lines 366-367: [p]
ChoosePreview(line) ==
    /\ wiz.pc = "menu"
    /\ Choice(line) = <<"p">>
    /\ wiz' = [wiz EXCEPT !.pc = "ask_selector"]
    /\ UNCHANGED home
    /\ WizFrame

\* lines 367-369: the pokemon name or id is typed
AnswerSelector(line) ==
    /\ wiz.pc = "ask_selector"
    /\ LET selector == Lower(Strip(line))
           w == [wiz EXCEPT !.pc = "menu", !.selector = selector]
       IN  wiz' = IF selector # <<>>
                  THEN Previewed(w, selector, wiz.text_mode, wiz.password)
                  ELSE w
    /\ UNCHANGED home
    /\ WizFrame

\* lines 370-372: [r]
ChooseRandom(line) ==
    /\ wiz.pc = "menu"
    /\ Choice(line) = <<"r">>
    /\ wiz' = Previewed([wiz EXCEPT !.selector = <<>>], <<>>, wiz.text_mode, wiz.password)
    /\ UNCHANGED home
    /\ WizFrame

\* line 373: [m]
ChooseMode(line) ==
    /\ wiz.pc = "menu"
    /\ Choice(line) = <<"m">>
    /\ wiz' = [wiz EXCEPT !.pc = "ask_mode"]
    /\ UNCHANGED home
    /\ WizFrame

\* lines 374-379: the text mode is typed
AnswerMode(line) ==
    /\ wiz.pc = "ask_mode"
    /\ LET mode == Lower(prompt(line, wiz.text_mode))
       IN  wiz' = IF mode \in WizardModes
                  THEN Previewed([wiz EXCEPT !.pc = "menu", !.text_mode = mode],
                                 wiz.selector, mode, wiz.password)
                  ELSE [wiz EXCEPT !.pc = "menu", !.out = @ \cup {"Invalid mode."}]
    /\ UNCHANGED home
    /\ WizFrame

\* lines 380-386: [s] saves the profile and installs the zsh hook
ChooseSave(line) ==
    /\ wiz.pc = "menu"
    /\ Choice(line) = <<"s">>
    /\ LET r == replace_or_append_block(home.zshrc, StartMarker, EndMarker, ZshBlockLines)
       IN  /\ home' = [home EXCEPT
                          !.state = SavedState(Strip(wiz.selector), wiz.text_mode,
                                               wiz.password),
                          !.zshrc = r.file]
           /\ wiz' = [wiz EXCEPT !.pc = "returned", !.ret = 0,
                                 !.out = @ \cup {"Saved profile", "Installed autoload hook"}
                                           \cup {r.out[i] : i \in 1..Len(r.out)}]
    /\ WizFrame

\* lines 387-389: [q]
ChooseQuit(line) ==
    /\ wiz.pc = "menu"
    /\ Choice(line) = <<"q">>
    /\ wiz' = [wiz EXCEPT !.pc = "returned", !.ret = 0,
                          !.out = @ \cup {"No changes saved."}]
    /\ UNCHANGED home
    /\ WizFrame

\* lines 390-391: any other choice
ChooseInvalid(line) ==
    /\ wiz.pc = "menu"
    /\ Choice(line) \notin {<<"p">>, <<"r">>, <<"m">>, <<"s">>, <<"q">>}
    /\ wiz' = [wiz EXCEPT !.out = @ \cup {"Invalid option."}]
    /\ UNCHANGED home
    /\ WizFrame

\* lines 392-394: input() raises EOFError or KeyboardInterrupt
InputEnds ==
    /\ wiz.pc \in PromptPositions
    /\ wiz' = [wiz EXCEPT !.pc = "returned", !.ret = 0,
                          !.out = @ \cup {"No changes saved."}]
    /\ UNCHANGED home
    /\ WizFrame

InitSetup ==
    /\ InitAdapter({1})
    /\ textMode = Unset
    /\ dataset = BaseDataset
    /\ blk = NoBlk
    /\ \E bin \in BOOLEAN, in_kitty \in BOOLEAN :
           wiz = [NoWiz EXCEPT !.pc = "start", !.bin = bin, !.in_kitty = in_kitty]
    /\ \E st \in StateFiles, z \in Zshrcs, k \in KittyConfs, v \in VscodeSettings :
           home = [state |-> st, zshrc |-> z, kitty |-> k, vscode |-> v]
    /\ home0 = home

NextSetup ==
    \/ MainStart
    \/ \E line \in YesNoLines : AnswerVscode(line)
    \/ \E line \in YesNoLines : AnswerKitty(line)
    \/ \E line \in PasswordLines : AnswerPassword(line)
    \/ \E line \in ChoiceLines : ChoosePreview(line)
    \/ \E line \in SelectorLines : AnswerSelector(line)
    \/ \E line \in ChoiceLines : ChooseRandom(line)
    \/ \E line \in ChoiceLines : ChooseMode(line)
    \/ \E line \in ModeLines : AnswerMode(line)
    \/ \E line \in ChoiceLines : ChooseSave(line)
    \/ \E line \in ChoiceLines : ChooseQuit(line)
    \/ \E line \in ChoiceLines : ChooseInvalid(line)
    \/ InputEnds

SpecSetup == InitSetup /\ [][NextSetup]_vars

----------------------------------------------------------------------------
(* Properties of the terminal adapter, checked under Spec *)

BgCmd(image) == Cmd("set-background-image", <<image>>)

\* the operation of p printed that the named action failed
Reported(p, action) == \E i \in 1..Len(out[p]) : out[p][i] = <<"Failed to", action>>

Attempted(p, name) == \E i \in 1..Len(calls[p]) : calls[p][i].cmd = name

C2_NoKittyFailureEscapes ==
    \A p \in procs :
        (op[p] \in {"change", "clear"} /\ pc[p] = "done") => exc[p].at # "kitty"

\* the palette of a source path under the dataset of the adapter runs:
\* pikachu (0.82) by name and by id 002 is bright, every other path is not
ExpectedPalette(path, env) ==
    IF env = SetTo(<<"D","a","r","k">>) THEN LIGHT_BG_PALETTE
    ELSE IF env = SetTo(<<"l","i","g","h","t">>) THEN DARK_BG_PALETTE
    ELSE IF path \in {PikachuJpg, TwoPNG} THEN LIGHT_BG_PALETTE
    ELSE DARK_BG_PALETTE

\* the paths _convert_to_png can return for a source path
ConvertedPaths(path) ==
    {path} \cup {MkPath("cache", Digest(path, Stat(m, sz)) \o DotPng) :
                     m \in 0..MaxMtime, sz \in Sizes}

\* C3: a change_terminal(path) in which nothing fails issues exactly two
\* commands, set-background-image with the path the converter returned and
\* then set-colors with the 20 key=value pairs of the palette selected for
\* the original path; set-colors is never sent before set-background-image.
C3_BackgroundThenColors ==
    \A p \in procs :
        op[p] = "change" =>
            /\ (pc[p] = "done" /\ exc[p] = NoExc /\ out[p] = <<>>) =>
                   /\ calls[p] = <<BgCmd(result[p]),
                                   Cmd("set-colors", ExpectedPalette(arg[p], textMode))>>
                   /\ result[p] \in ConvertedPaths(arg[p])
                   /\ Len(calls[p][2].args) = 20
                   /\ \A i \in 1..20 : calls[p][2].args[i][1] = PaletteKeys[i]
            /\ \A i \in 1..Len(calls[p]) :
                   calls[p][i].cmd = "set-colors" =>
                       i = 2 /\ calls[p][1].cmd = "set-background-image"

C3_Witness ==
    \E p \in procs :
        /\ op[p] = "change" /\ pc[p] = "done" /\ exc[p] = NoExc /\ out[p] = <<>>
        /\ arg[p] = PikachuJpg
        /\ result[p].dir = "cache"
        /\ textMode = Unset
        /\ Len(calls[p]) = 2
        /\ PaletteGet(calls[p][2].args, "foreground") = "#111111"

\* C4: clear() always attempts both commands, `set-background-image none`
\* first and `set-colors --reset` second; a failure of the first is reported
\* and does not prevent the second, a failure of the second is reported too.
C4_ClearAttemptsBoth ==
    \A p \in procs :
        (op[p] = "clear" /\ pc[p] = "done")
            => calls[p] = <<BgCmd(NonePath), Cmd("set-colors", << <<"--reset">> >>)>>

\* the source paths whose extension is .png in some letter case
PngSources == {TwoPNG, XPng, YpngLower}

\* C5: for a source path whose extension is .png in any letter case,
\* _convert_to_png returns the source path and leaves the file system as it
\* is: no cache directory, no cache or temporary file, no run of the tool.
C5_PngPassthrough ==
    [][\A p \in procs :
          (op'[p] \in {"change", "convert"} /\ arg'[p] \in PngSources)
              => /\ pc'[p] \in {"set_bg", "set_colors", "done"}
                 /\ result'[p] = arg'[p]
                 /\ files' = files
                 /\ cacheDir' = cacheDir
                 /\ nconv' = nconv]_vars

C5_Witness ==
    \E p \in procs :
        /\ op[p] = "convert" /\ pc[p] = "done"
        /\ arg[p] = XPng
        /\ result[p] = XPng
        /\ ~cacheDir
        /\ files = EmptyDict

\* the final cache file name of a source identity
TargetOf(k) == Digest(k[1], Stat(k[2], k[3])) \o DotPng

\* C6: when the first conversion of an unmodified non-PNG source has
\* succeeded, every later _convert_to_png call on it returns the same cache
\* path without running the tool again: the tool has run exactly once.
C6_ConvertedOnce ==
    /\ \A k \in Keys :
           (TargetOf(k) \in DOMAIN files /\ files[TargetOf(k)].launch = 1)
               => nconv[k] = 1
    /\ \A p \in procs :
           (/\ op[p] \in {"change", "convert"}
            /\ pc[p] \in {"set_bg", "set_colors", "done"}
            /\ exc[p] = NoExc
            /\ target[p] \in DOMAIN files)
               => result[p] = MkPath("cache", target[p])

\* a later call has returned the cached path without a temporary file
C6_Witness ==
    \E p \in procs :
        /\ op[p] = "convert" /\ pc[p] = "done"
        /\ arg[p] = PikachuJpg
        /\ tmp[p] = NoName
        /\ target[p] \in DOMAIN files
        /\ files[target[p]].launch = 1
        /\ nconv[KeyOf(p)] = 1
        /\ result[p] = MkPath("cache", target[p])

----------------------------------------------------------------------------
(* Properties of the converter, checked under SpecConv *)

\* C7: when the conversion tool fails (non-zero exit or launch failure),
\* _convert_to_png returns the source path, the temporary file the call
\* created is gone, and the call has published nothing at the cache path.
C7_FailedConversionFallsBack ==
    \A p \in procs :
        (convFailed[p] /\ pc[p] = "done")
            => /\ exc[p] = NoExc
               /\ result[p] = arg[p]
               /\ \A n \in DOMAIN files : n \in TmpNames => files[n].by # p
               /\ target[p] \in DOMAIN files => files[target[p]].by # p

C7_Witness ==
    \E p \in procs :
        /\ convFailed[p] /\ pc[p] = "done"
        /\ result[p] = PikachuJpg
        /\ target[p] \notin DOMAIN files

\* C8: with processes converting the same uncached image concurrently, a
\* file at a final cache path is always a whole PNG: the tool writes only
\* to temporary files, each named apart from the cache path and from the
\* other processes' files, and a cache path appears only by the rename of a
\* temporary file whose conversion has finished.
C8_CacheFileIsComplete ==
    /\ \A n \in DOMAIN files : n \notin TmpNames => files[n].data = "png"
    /\ \A p \in procs :
           pc[p] \in {"run", "converting", "replace"} =>
               /\ tmp[p] \in TmpNames
               /\ tmp[p] # target[p]
               /\ \A q \in procs \ {p} :
                      pc[q] \in {"run", "converting", "replace"} => tmp[q] # tmp[p]

\* a process gets a cache hit while another one is still writing its
\* conversion of the same image
C8_Witness ==
    \E p \in procs, q \in procs :
        /\ p # q
        /\ pc[p] = "done" /\ tmp[p] = NoName
        /\ result[p] = MkPath("cache", target[p])
        /\ pc[q] = "converting" /\ target[q] = target[p]
        /\ files[tmp[q]].data = "partial"

----------------------------------------------------------------------------
(* Properties of the palette selector, checked under SpecPalette *)

\* the brightness score of a path when pikachu has the score b
ScoreOf(path, b) == IF path \in {PikachuJpg, TwoPNG} THEN b ELSE 50

AutoSpellings ==
    {Unset, SetTo(<<"a","u","t","o">>), SetTo(<<"A","U","T","O">>)}
DarkSpellings ==
    {SetTo(<<"d","a","r","k">>), SetTo(<<"D","a","r","k">>), SetTo(<<"D","A","R","K">>)}
LightSpellings ==
    {SetTo(<<"l","i","g","h","t">>), SetTo(<<"L","I","G","H","T">>),
     SetTo(<<"L","i","g","h","T">>)}

\* C9: with the override absent or `auto`, the light-background palette
\* (foreground #111111) is selected if and only if the score is >= 0.65, the
\* dark-background palette otherwise; 0.65 selects the light-background
\* palette and the default 0.5 the dark-background palette.
C9_BrightnessRule ==
    \A b \in 0..MaxScore :
        (dataset = ScoreDataset(b) /\ selOut # NoSel /\ textMode \in AutoSpellings)
            => /\ selOut.palette \in {LIGHT_BG_PALETTE, DARK_BG_PALETTE}
               /\ (selOut.palette = LIGHT_BG_PALETTE) <=> (ScoreOf(selOut.path, b) >= 65)
               /\ (PaletteGet(selOut.palette, "foreground") = "#111111")
                      <=> (ScoreOf(selOut.path, b) >= 65)

C9_Witness ==
    /\ dataset = ScoreDataset(65)
    /\ textMode = Unset
    /\ selOut.path = PikachuJpg
    /\ selOut.palette = LIGHT_BG_PALETTE

\* C10: the override wins over brightness and is matched without regard to
\* case: `dark` gives the light-background palette and `light` the
\* dark-background palette for every path and score; any other value, or
\* none, gives what `auto` gives.
C10_OverridePrecedence ==
    \A b \in 0..MaxScore :
        (dataset = ScoreDataset(b) /\ selOut # NoSel)
            => /\ textMode \in DarkSpellings => selOut.palette = LIGHT_BG_PALETTE
               /\ textMode \in LightSpellings => selOut.palette = DARK_BG_PALETTE
               /\ textMode \notin (DarkSpellings \cup LightSpellings) =>
                      selOut.palette = IF ScoreOf(selOut.path, b) >= 65
                                       THEN LIGHT_BG_PALETTE ELSE DARK_BG_PALETTE

C10_Witness ==
    /\ dataset = ScoreDataset(10)
    /\ textMode = SetTo(<<"D","A","R","K">>)
    /\ selOut.path = PikachuJpg
    /\ selOut.palette = LIGHT_BG_PALETTE

----------------------------------------------------------------------------
(* Properties of the cache under source modifications, checked under SpecModify *)

\* the files of the cache directory that are cache entries
CacheNames(fs) == {n \in DOMAIN fs : n \notin TmpNames}

\* process p has returned a cache path
ReturnedCached(p, pcs, excs, results, args) ==
    /\ pcs[p] = "done"
    /\ excs[p] = NoExc
    /\ results[p] # args[p]

\* C13: when the identity (path, mtime, size) of a non-PNG source differs
\* from the identity at an earlier conversion, the cache path computed for
\* it differs from the earlier one; a call never returns a PNG that was
\* converted for another identity; and the cache files of other identities
\* are neither deleted nor overwritten.
C13_ChangedIdentityChangesCachePath ==
    [][ /\ \A p \in procs :
             target'[p] # NoName =>
                 \A k \in Keys : k # ident'[p] => TargetOf(k) # target'[p]
        /\ \A p \in procs :
             ReturnedCached(p, pc', exc', result', arg') =>
                 /\ result'[p].name \in CacheNames(files')
                 /\ files'[result'[p].name].key = ident'[p]
        /\ \A n \in CacheNames(files) :
             (\A p \in procs : ident'[p] # files[n].key) =>
                 (n \in DOMAIN files' /\ files'[n] = files[n])
      ]_vars

\* the image was converted, then touched or resized, then converted again:
\* the second call returned another cache file and the first is still there
C13_Witness ==
    LET first == TargetOf(Key(PikachuJpg, Stat(0, 3)))
    IN  /\ ReturnedCached(1, pc, exc, result, arg)
        /\ ident[1] # Key(PikachuJpg, Stat(0, 3))
        /\ result[1].name # first
        /\ first \in DOMAIN files
        /\ files[first].data = "png"
        /\ files[first].key = Key(PikachuJpg, Stat(0, 3))

\* C15: the only failure that escapes _convert_to_png (and change_terminal
\* through it) is a failure to create the cache directory.
C15_OnlyMkdirFailureEscapes ==
    \A p \in procs :
        (pc[p] = "done" /\ exc[p] # NoExc /\ exc[p].at # "kitty")
            => exc[p].at = "mkdir"

----------------------------------------------------------------------------
(* Properties of the classifier and the loader, checked under SpecTable *)

\* a file stem `<parent>-<suffix>` and the stem `<parent>`
VariantPairs == {<<PikachuAltJpg, PikachuJpg>>, <<N002AltJpg, N002Jpg>>}

\* C11: for every stem `<parent>-<suffix>`, a numeric parent such as
\* `025-alt` included, _infer_dark_threshold returns the score it returns
\* for the stem `<parent>`.
C11_VariantScoresAsParent ==
    \A pr \in VariantPairs :
        (pr[1] \in DOMAIN clsOut /\ pr[2] \in DOMAIN clsOut)
            => clsOut[pr[1]] = clsOut[pr[2]]

\* the well-formed lines and the score in their second column
IsWellFormed(line) == line \in {LineBulbasaur, LinePikachu}
LineScore(line) == IF line = LineBulbasaur THEN 30 ELSE 82

\* the id key of the k-th entry, k < 10
IdKey(k) == <<"0", "0", DIGITS[k + 1]>>

\* C12: _load_dark_thresholds gives the ids 001, 002, ... in file order to
\* exactly the well-formed lines: a malformed line is skipped, does not end
\* the parse and uses up no id, so the k-th well-formed line has id k and
\* by_id has as many entries as there are well-formed lines.
C12_IdsFollowWellFormedLines ==
    LET good == SelectSeq(dataset, IsWellFormed)
    IN  loaded.cached =>
            /\ DOMAIN loaded.by_id = {IdKey(k) : k \in 1..Len(good)}
            /\ Cardinality(DOMAIN loaded.by_id) = Len(good)
            /\ \A k \in 1..Len(good) : loaded.by_id[IdKey(k)] = LineScore(good[k])

C12_Witness ==
    /\ loaded.cached
    /\ dataset = <<LineOneToken, LineBulbasaur, LinePikachu>>
    /\ loaded.by_id[IdKey(1)] = 30
    /\ loaded.by_id[IdKey(2)] = 82
    /\ Cardinality(DOMAIN loaded.by_id) = 2

----------------------------------------------------------------------------
(* Properties of the block editor, checked under SpecBlock *)

\* how many times token c occurs in s
Count(s, c) == Cardinality({i \in 1..Len(s) : s[i] = c})

\* the block `start, lines..., end` as it is written
InstalledBlock == JoinLines(<<StartMarker>> \o BlockLines \o <<EndMarker>>) \o <<NL>>

\* s holds the block at some position
HoldsBlock(s) ==
    \E i \in 1..Len(s) :
        /\ i + Len(InstalledBlock) - 1 <= Len(s)
        /\ SubSeq(s, i, i + Len(InstalledBlock) - 1) = InstalledBlock

\* the prior contents the property speaks of: no markers, a complete
\* block, an orphan start marker, an orphan end marker, or an end marker
\* only before the start marker
PriorInScope ==
    \/ ~blk.prior.exists
    \/ /\ Count(blk.prior.content, StartMarker) <= 1
       /\ Count(blk.prior.content, EndMarker) <= 1

\* C16: for every such prior content, after _replace_or_append_block the
\* file has exactly one start marker and exactly one end marker, which form
\* one block `start, lines..., end`; and a second call with the same
\* arguments leaves the file as the first call wrote it.
C16_OneBlockAndIdempotent ==
    PriorInScope =>
        \A i \in 1..Len(blk.hist) :
            /\ Count(blk.hist[i], StartMarker) = 1
            /\ Count(blk.hist[i], EndMarker) = 1
            /\ HoldsBlock(blk.hist[i])
            /\ i > 1 => blk.hist[i] = blk.hist[i - 1]

----------------------------------------------------------------------------
(* Properties of the setup wizard, checked under SpecSetup *)

\* C14: whenever main ends by reporting "No changes saved." ([q], or
\* EOFError / KeyboardInterrupt at a prompt), it returns 0 and the state
\* file, the zsh rc file, kitty.conf and the VS Code settings file are as
\* they were before the run.
C14_NoChangesSavedChangesNothing ==
    (wiz.pc = "returned" /\ "No changes saved." \in wiz.out) =>
        /\ wiz.ret = 0
        /\ home = home0

====
